---- MODULE Spec2Model ----
(***************************************************************************)
(* The worker process manager of atr/manager.py as a state machine.        *)
(*                                                                         *)
(* One step of a coroutine is the code it runs between two suspension      *)
(* points (awaits that really give control back to the event loop):        *)
(*   spawn_worker         the await of the subprocess creation             *)
(*   check_task_duration  the await of the task query, the await of the    *)
(*                        transaction's commit                             *)
(*   reset_broken_tasks   the await of the bulk update                     *)
(*   monitor_workers      the await of asyncio.sleep                       *)
(*   stop                 the await of the monitoring task                 *)
(*   stop_all_workers     the await of each worker's wait_for              *)
(* The worker processes, the clock and the task store's other clients run  *)
(* beside the manager and interleave with it at every step.                *)
(***************************************************************************)
EXTENDS Integers, FiniteSets, Sequences, TLC

\* Processes the operating system creates in one run (PIDs 1..MaxPid).
MaxPid == 2
\* The clock runs from 0 to MaxTime seconds.
MaxTime == 1
\* Task records in the task store.
NumTasks == 1
\* Monitoring tasks created in one run (start() calls that go through).
MaxMon == 2
\* Tasks of the application that call start() and stop() concurrently.
NumCallers == 2
\* User IDs that can be in the admins group.
NumUsers == 2

NumResults == 2

NumRules == 1

Pids == 1..MaxPid
Tasks == 1..NumTasks
Mons == 1..MaxMon
Callers == 1..NumCallers
Users == 1..NumUsers
\* The application's lifecycle task: start() at startup, stop() at shutdown.
Lifecycle == {1}

\* Python's None for a timestamp or an exit code; a PID of None is 0
\* (the code tests PIDs for truth, so None and 0 are the same to it).
Null == 0 - 1
NoPid == 0
NoTask == 0
NoError == <<>>

\* Constructor arguments tried: <<min_workers, max_workers>>.
WorkerLimits == {<<1, 2>>, <<2, 2>>, <<2, 1>>}
\* The same, for the runs with concurrent callers.
ConcLimits == {<<1, 1>>}
\* The same, for the runs of a manager that keeps running.
LiveLimits == {<<1, 2>>}
\* Constructor argument max_task_seconds tried.
TaskSecondsChoices == {0}

VARIABLES
    min_workers,      \* WorkerManager.min_workers
    max_workers,      \* WorkerManager.max_workers
    max_task_seconds, \* WorkerManager.max_task_seconds
    running,          \* WorkerManager.running
    check_task,       \* WorkerManager.check_task: a monitoring task or 0
    workers,          \* WorkerManager.workers: PID -> WorkerProcess
    call,             \* the start()/stop() call each caller is in
    mon,              \* the monitoring tasks (monitor_workers coroutines)
    proc,             \* the operating system's processes, by PID
    termSent,         \* PIDs os.kill(pid, SIGTERM) was called for
    killSent,         \* PIDs os.kill(pid, SIGKILL) was called for
    tasks,            \* the task store
    job,              \* the task each process is executing, or 0
    now,              \* the clock, in seconds
    cache,            \* the admins cache: file, LDAP, app extensions, the call
    checks            \* a by_release_path call: its inputs and what it returns

vars == <<min_workers, max_workers, max_task_seconds, running, check_task,
          workers, call, mon, proc, termSent, killSent, tasks, job, now, cache,
          checks>>

config == <<min_workers, max_workers, max_task_seconds>>

----------------------------------------------------------------------------
(* Helpers *)

Min(S) == CHOOSE x \in S : \A y \in S : x <= y

EmptyPool == [k \in {} |-> [pid |-> NoPid]]

PoolSize(w) == Cardinality(DOMAIN w)

\* WorkerProcess(process, started): the handle of the process with this PID.
WorkerProcess(p) == [pid |-> p]

\* The PID the operating system gives the next process, or 0 when it
\* creates no more.
NextPid ==
    IF \E p \in Pids : proc[p] = "none"
    THEN Min({p \in Pids : proc[p] = "none"})
    ELSE NoPid

IdleCall == [pc |-> "idle", n |-> 0, aw |-> 0, wait |-> {}]

UnusedMon ==
    [pc |-> "unused", cancel |-> FALSE, items |-> {}, todo |-> {}, exited |-> {},
     cur |-> NoPid, task |-> NoTask, stamp |-> Null, pids |-> {},
     rowcount |-> 0, seen |-> {}, retry |-> FALSE, sig |-> {}, eperm |-> {},
     diag |-> FALSE]

\* A busy loop that never awaits keeps the event loop: no other coroutine
\* of the process runs again.
Blocked == \E m \in Mons : mon[m].pc = "mw_spin"

UsedMons == {m \in Mons : mon[m].pc # "unused"}

InCheckWorkers(m) ==
    mon[m].pc \in {"ctd_get", "ctd_commit", "mw_spawn", "mw_spin", "rb_exec"}

----------------------------------------------------------------------------
(* The task store *)

NewTask ==
    [status |-> "QUEUED", pid |-> NoPid, started |-> Null,
     completed |-> Null, error |-> NoError]

\* data.task(pid=pid, status=ACTIVE).get(): the ACTIVE task of this PID.
ActiveTaskOf(ts, pid) ==
    IF \E t \in Tasks : ts[t].status = "ACTIVE" /\ ts[t].pid = pid
    THEN CHOOSE t \in Tasks : ts[t].status = "ACTIVE" /\ ts[t].pid = pid
    ELSE NoTask

\* SQL's pid NOT IN (pids): never true of a NULL pid, unless the list is
\* empty.
NotIn(pid, pids) == IF pids = {} THEN TRUE ELSE pid # NoPid /\ pid \notin pids

ResetUpdate_KeepStarted(ts, pids) ==
    [t \in Tasks |->
        IF ts[t].status = "ACTIVE" /\ pids # {} /\ ts[t].pid \notin pids
        THEN [ts[t] EXCEPT !.status = "QUEUED", !.pid = NoPid]
        ELSE ts[t]]

\* The bulk update of reset_broken_tasks.
ResetUpdate(ts, pids) ==
    [t \in Tasks |->
        IF ts[t].status = "ACTIVE" /\ NotIn(ts[t].pid, pids)
        THEN [ts[t] EXCEPT !.status = "QUEUED", !.started = Null, !.pid = NoPid]
        ELSE ts[t]]

RowCount(ts, pids) ==
    Cardinality({t \in Tasks : ts[t].status = "ACTIVE" /\ NotIn(ts[t].pid, pids)})

OverLimit_AtLimit(started, clock) == clock - started >= max_task_seconds

Unchecked_NoTaskOnly(ts, t) == t = NoTask

\* if not task or not task.started: return False
Unchecked(ts, t) == t = NoTask \/ ts[t].started = Null

\* What the cycle records of a task it found without started.
Unstamped(ts, pid, t) == IF t = NoTask THEN {} ELSE {<<pid, t, Null>>}

\* task_duration > self.max_task_seconds
OverLimit(started, clock) == clock - started > max_task_seconds

\* The error message terminate_long_running_task records.
TimeLimitError == <<"Task terminated after exceeding time limit of", max_task_seconds>>

MarkFailed_StatusOnly(ts, t, stamp) ==
    [ts EXCEPT ![t] = [@ EXCEPT !.status = "FAILED"]]

\* The changes terminate_long_running_task makes to the task object; the
\* transaction's commit writes them to the task's row.
MarkFailed(ts, t, stamp) ==
    [ts EXCEPT ![t] = [@ EXCEPT !.status = "FAILED", !.completed = stamp,
                                !.error = TimeLimitError]]

----------------------------------------------------------------------------
(* WorkerProcess.is_running *)

\* What the handle and the operating system may show for a process:
\* <<returncode, answer of os.kill(pid, 0)>>.
Observations(p) ==
    IF proc[p] = "alive"
    THEN {<<Null, "ok">>, <<Null, "eperm">>}
    ELSE {<<0, "esrch">>, <<Null, "esrch">>}

AllObservations == {Null, 0} \X {"ok", "eperm", "esrch"}

IsRunning_ExitCodeOnly(returncode, pid, probe) == returncode = Null

IsRunning_ProbeIgnored(returncode, pid, probe) ==
    IF returncode # Null THEN FALSE
    ELSE IF pid = NoPid THEN FALSE
    ELSE TRUE

IsRunning_OwnedOnEperm(returncode, pid, probe) ==
    IF returncode # Null THEN FALSE
    ELSE IF pid = NoPid THEN FALSE
    ELSE probe \in {"ok", "eperm"}

IsRunning(returncode, pid, probe) ==
    IF returncode # Null THEN FALSE
    ELSE IF pid = NoPid THEN FALSE
    ELSE IF probe = "ok" THEN TRUE
    ELSE FALSE

----------------------------------------------------------------------------
(* spawn_worker *)

\* len(self.workers) >= self.max_workers: spawn_worker returns at once.
PoolFull(w) == PoolSize(w) >= max_workers

\* What the subprocess creation may yield: a process with a PID, a process
\* object without PID, an exception.
SpawnOutcomes == (IF NextPid # NoPid THEN {"pid"} ELSE {}) \cup {"nopid", "error"}

SpawnInsert_AnyOutcome(w, outcome) ==
    IF NextPid # NoPid
    THEN [k \in DOMAIN w \cup {NextPid} |->
            IF k = NextPid THEN WorkerProcess(NextPid) ELSE w[k]]
    ELSE w

SpawnInsert_NoPidToo(w, outcome) ==
    IF outcome = "pid"
    THEN [k \in DOMAIN w \cup {NextPid} |->
            IF k = NextPid THEN WorkerProcess(NextPid) ELSE w[k]]
    ELSE IF outcome = "nopid"
    THEN [k \in DOMAIN w \cup {NoPid} |->
            IF k = NoPid THEN WorkerProcess(NoPid) ELSE w[k]]
    ELSE w

\* The pool after spawn_worker resumes from the subprocess creation.
SpawnInsert(w, outcome) ==
    IF outcome = "pid"
    THEN [k \in DOMAIN w \cup {NextPid} |->
            IF k = NextPid THEN WorkerProcess(NextPid) ELSE w[k]]
    ELSE w

SpawnProc(outcome) ==
    IF outcome = "pid" THEN [proc EXCEPT ![NextPid] = "alive"] ELSE proc

----------------------------------------------------------------------------
(* check_workers, from one suspension point to the next *)

\* Remove exited workers: self.workers.pop(pid, None).
RemoveExited(w, exited) == [k \in DOMAIN w \ exited |-> w[k]]

EnterReset_BeforeTopUp(r, w) ==
    [r EXCEPT !.pc = "rb_exec", !.pids = r.items \ r.exited]

\* reset_broken_tasks up to its bulk update: the pool's keys are read.
EnterReset(r, w) == [r EXCEPT !.pc = "rb_exec", !.pids = DOMAIN w]

Maintain_NoTopUp(r, w) == EnterReset(r, w)

\* maintain_worker_pool up to its next suspension: while the pool is below
\* min_workers it calls spawn_worker, which returns at once when the pool is
\* at max_workers, and then the loop never awaits and never ends.
Maintain(r, w) ==
    IF PoolSize(w) < min_workers
    THEN IF PoolFull(w) THEN [r EXCEPT !.pc = "mw_spin"]
         ELSE [r EXCEPT !.pc = "mw_spawn"]
    ELSE EnterReset(r, w)

\* The loop over the tracked workers up to its next suspension, the
\* workers showing obs: those not running are marked; the first one running
\* has its task's duration checked.
Running(todo, obs) == {p \in todo : IsRunning(obs[p][1], p, obs[p][2])}

\* The workers whose probe os.kill(pid, 0) raised PermissionError.
Denied(todo, obs) ==
    {p \in todo : /\ obs[p][1] = Null
                  /\ WorkerProcess(p).pid # NoPid
                  /\ obs[p][2] = "eperm"}

\* (eperm records the workers the cycle has found with such a probe.)
Scan(r, obs) ==
    LET run == Running(r.todo, obs) IN
    IF run = {}
    THEN [r EXCEPT !.exited = @ \cup r.todo, !.todo = {}, !.cur = NoPid,
                   !.task = NoTask, !.stamp = Null,
                   !.eperm = @ \cup Denied(r.todo, obs)]
    ELSE [r EXCEPT !.exited = @ \cup {p \in r.todo : p < Min(run)},
                   !.todo = {p \in r.todo : p > Min(run)},
                   !.cur = Min(run), !.pc = "ctd_get",
                   !.task = NoTask, !.stamp = Null,
                   !.eperm = @ \cup Denied({p \in r.todo : p <= Min(run)}, obs)]

\* After the loop: removals, top-up, orphan reset.
AfterLoop(r, w) == Maintain(r, RemoveExited(w, r.exited))

\* The monitor and the pool after the loop went on with observations obs.
ScanMon(r, obs) ==
    LET s == Scan(r, obs) IN
    IF s.cur = NoPid THEN AfterLoop(s, workers) ELSE s

ScanPool(r, obs) ==
    LET s == Scan(r, obs) IN
    IF s.cur = NoPid THEN RemoveExited(workers, s.exited) ELSE workers

ObsOf(todo) ==
    {o \in [todo -> AllObservations] : \A p \in todo : o[p] \in Observations(p)}

----------------------------------------------------------------------------
(* atr/cache.py: the admins cache *)

\* The cache file: missing, invalid (unreadable, or not the JSON of an
\* AdminsCache), or valid with its list of admins.
AdminLists == UNION {[1..n -> Users] : n \in 0..NumUsers}

NoFile == [kind |-> "missing", list |-> <<>>]

FileStates ==
    {NoFile, [kind |-> "invalid", list |-> <<>>]}
        \cup {[kind |-> "valid", list |-> l] : l \in AdminLists}

\* model_validate_json: the JSON array becomes a frozenset.
Parse(list) == {list[i] : i \in DOMAIN list}

\* model_dump_json: the frozenset becomes a JSON array.
Dump(set) ==
    CHOOSE list \in [1..Cardinality(set) -> set] :
        \A i, j \in 1..Cardinality(set) : i < j => list[i] < list[j]

\* admins_read_from_file: the AdminsCache of a valid file, else None.
ReadFromFile(file) ==
    IF file.kind = "valid"
    THEN [none |-> FALSE, admins |-> Parse(file.list)]
    ELSE [none |-> TRUE, admins |-> {}]

\* What ldap.fetch_admin_users() gives: a set of users, or an exception.
LdapAnswers ==
    {[up |-> FALSE, users |-> {}]} \cup {[up |-> TRUE, users |-> u] : u \in SUBSET Users}

\* app.extensions: without "admins", or with the set installed.
NotInstalled == [installed |-> FALSE, users |-> {}]

Installed(users) == [installed |-> TRUE, users |-> users]

\* The cache before admins_startup_load is called; what the file holds,
\* what LDAP will answer and whether the file can be written are given.
NoCache ==
    [pc |-> "off", file |-> NoFile, file0 |-> NoFile,
     ldap |-> [up |-> FALSE, users |-> {}], writable |-> FALSE,
     admins |-> NotInstalled, queried |-> FALSE, users |-> {}]

CacheInputs ==
    {[NoCache EXCEPT !.pc = "read", !.file = f, !.file0 = f, !.ldap = l,
                     !.writable = w] :
        f \in FileStates, l \in LdapAnswers, w \in BOOLEAN}

\* admins_startup_load resumes from admins_read_from_file: with a valid
\* cache the admins are installed and it returns, else LDAP is asked.
StartupRead ==
    /\ cache.pc = "read"
    /\ LET data == ReadFromFile(cache.file) IN
       IF ~data.none
       THEN cache' = [cache EXCEPT !.pc = "done", !.admins = Installed(data.admins)]
       ELSE cache' = [cache EXCEPT !.pc = "fetch", !.queried = TRUE]
    /\ UNCHANGED <<config, checks, job, running, check_task, workers, call, mon, proc,
                   termSent, killSent, tasks, now>>

\* It resumes from ldap.fetch_admin_users: an exception is logged and it
\* returns, else the users are saved.
StartupFetch ==
    /\ cache.pc = "fetch"
    /\ IF ~cache.ldap.up
       THEN cache' = [cache EXCEPT !.pc = "done"]
       ELSE cache' = [cache EXCEPT !.pc = "save", !.users = cache.ldap.users]
    /\ UNCHANGED <<config, checks, job, running, check_task, workers, call, mon, proc,
                   termSent, killSent, tasks, now>>

\* It resumes from admins_save_to_file: the admins are installed after the
\* file is written; an exception of the write is logged and it returns.
StartupSave ==
    /\ cache.pc = "save"
    /\ IF cache.writable
       THEN cache' = [cache EXCEPT !.pc = "done",
                                   !.file = [kind |-> "valid", list |-> Dump(cache.users)],
                                   !.admins = Installed(cache.users)]
       ELSE cache' = [cache EXCEPT !.pc = "done"]
    /\ UNCHANGED <<config, checks, job, running, check_task, workers, call, mon, proc,
                   termSent, killSent, tasks, now>>

----------------------------------------------------------------------------
(* atr/storage/readers/checks.py *)

\* A str | None: None, or a string as the sequence of its characters.
None == [none |-> TRUE, s |-> <<>>]

Some(str) == [none |-> FALSE, s |-> str]

BANG == <<"!">>

StartsWith(str, ch) == str # <<>> /\ Head(str) = ch

\* regex.search for a pattern from re.escape(pattern).replace(r"\*", ".*"):
\* every character stands for itself and "*" for any run of characters;
\* the pattern may begin anywhere in the value.
RECURSIVE GlobAt(_, _)
GlobAt(pat, val) ==
    IF pat = <<>> THEN TRUE
    ELSE IF Head(pat) = "*"
    THEN \E k \in 0..Len(val) : GlobAt(Tail(pat), SubSeq(val, k + 1, Len(val)))
    ELSE val # <<>> /\ Head(val) = Head(pat) /\ GlobAt(Tail(pat), Tail(val))

GlobSearch(pat, val) ==
    \E i \in 1..(Len(val) + 1) : GlobAt(pat, SubSeq(val, i, Len(val)))

\* re.compile of a pattern that starts with "^": "^*" does not compile
\* (nothing to repeat); "^" followed by plain characters does.
Compiles(regex) == ~(Len(regex) >= 2 /\ regex[2] = "*")

\* regex.search for "^" followed by plain characters: the value starts
\* with them.
RegexSearch(regex, val) ==
    LET lit == Tail(regex) IN
    Len(lit) <= Len(val) /\ SubSeq(val, 1, Len(lit)) = lit

\* __check_ignore_match_pattern: "true", "false", or "raise" for re.error.
MatchPattern(pattern, value) ==
    IF pattern = Some(BANG) THEN (IF value.none THEN "true" ELSE "false")
    ELSE IF pattern.none \/ value.none THEN "false"
    ELSE LET negate == StartsWith(pattern.s, "!")
             body == IF negate THEN Tail(pattern.s) ELSE pattern.s IN
         IF StartsWith(body, "^") /\ ~Compiles(body) THEN "raise"
         ELSE LET matched == IF StartsWith(body, "^") THEN RegexSearch(body, value.s)
                             ELSE GlobSearch(body, value.s) IN
              IF matched # negate THEN "true" ELSE "false"

\* The release, revision and path by_release_path is called for: every
\* check result of the query has them.
ReleaseName == <<"a", "b">>

RevisionNumber == <<"a">>

PrimaryRelPath == <<"b">>

\* sql.CheckResult: what by_release_path and the matcher read of it.
Statuses == {"success", "failure", "warning"}

Checkers == {<<"a">>, <<"a", "b">>}

ResultShapes ==
    [status : Statuses, checker : Checkers,
     member_rel_path : {None, Some(<<"a">>)}, message : {Some(<<"b">>)}]

\* sql.CheckResultIgnore: every criterion is None or set.
AnyRule ==
    [release_glob |-> None, revision_number |-> None, checker_glob |-> None,
     primary_rel_path_glob |-> None, member_rel_path_glob |-> None,
     status |-> "none", message_glob |-> None]

IgnoreRules ==
    {AnyRule}
    \cup {[AnyRule EXCEPT !.release_glob = Some(g)] : g \in {<<"a">>, <<"b", "a">>}}
    \cup {[AnyRule EXCEPT !.revision_number = Some(r)] : r \in {<<"a">>, <<"b">>}}
    \cup {[AnyRule EXCEPT !.checker_glob = Some(g)] : g \in {<<"a", "b">>, <<"!", "b">>}}
    \cup {[AnyRule EXCEPT !.primary_rel_path_glob = Some(g)] : g \in {<<"^", "b">>, <<"^", "*">>}}
    \cup {[AnyRule EXCEPT !.member_rel_path_glob = Some(g)] : g \in {BANG, <<"*">>}}
    \cup {[AnyRule EXCEPT !.status = st] : st \in {"failure", "warning"}}
    \cup {[AnyRule EXCEPT !.message_glob = Some(g)] : g \in {<<"b">>, <<"a">>}}
    \cup {[AnyRule EXCEPT !.checker_glob = Some(<<"a", "b">>), !.status = "failure"],
          [AnyRule EXCEPT !.checker_glob = Some(<<"a", "b">>),
                          !.primary_rel_path_glob = Some(<<"^", "*">>)],
          [AnyRule EXCEPT !.member_rel_path_glob = Some(BANG), !.message_glob = Some(<<"a">>)]}

\* One criterion of a rule that is a glob: "skip" when it is None.
Glob(pattern, value) == IF pattern.none THEN "skip" ELSE MatchPattern(pattern, value)

\* The criteria in the order __check_ignore_match and __check_ignore_match_2
\* test them. (CheckResultStatus and CheckResultStatusIgnore are compared by
\* their values.)
Criteria(cr, cri) ==
    <<Glob(cri.release_glob, Some(ReleaseName)),
      IF cri.revision_number.none THEN "skip"
      ELSE IF cri.revision_number.s # RevisionNumber THEN "false" ELSE "true",
      Glob(cri.checker_glob, Some(cr.checker)),
      Glob(cri.primary_rel_path_glob, Some(PrimaryRelPath)),
      Glob(cri.member_rel_path_glob, cr.member_rel_path),
      IF cri.status = "none" THEN "skip"
      ELSE IF cr.status # cri.status THEN "false" ELSE "true",
      Glob(cri.message_glob, cr.message)>>

\* The first criterion that returns False or raises decides; with none, the
\* rule matches.
FirstFailing(steps) ==
    IF \E i \in DOMAIN steps : steps[i] \in {"false", "raise"}
    THEN steps[Min({i \in DOMAIN steps : steps[i] \in {"false", "raise"}})]
    ELSE "true"

CheckIgnoreMatch_SuccessToo(cr, cri) == FirstFailing(Criteria(cr, cri))

\* __check_ignore_match
CheckIgnoreMatch(cr, cri) ==
    IF cr.status = "success" THEN "false" ELSE FirstFailing(Criteria(cr, cri))

\* match(cr) of ignores_matcher: the first rule that matches or raises
\* decides.
MatchIgnore(cr, ignores) ==
    LET hit == {i \in DOMAIN ignores : CheckIgnoreMatch(cr, ignores[i]) \in {"true", "raise"}} IN
    IF hit = {} THEN "false" ELSE CheckIgnoreMatch(cr, ignores[Min(hit)])

\* The order of str: by characters, a prefix first.
Rank(ch) == IF ch = "a" THEN 1 ELSE 2

RECURSIVE Less(_, _)
Less(x, y) ==
    IF y = <<>> THEN FALSE
    ELSE IF x = <<>> THEN TRUE
    ELSE IF Head(x) # Head(y) THEN Rank(Head(x)) < Rank(Head(y))
    ELSE Less(Tail(x), Tail(y))

\* list.sort(key=lambda r: r.checker): stable.
InsertByChecker(sorted, r) ==
    LET k == Cardinality({i \in DOMAIN sorted : ~Less(r.checker, sorted[i].checker)}) IN
    SubSeq(sorted, 1, k) \o <<r>> \o SubSeq(sorted, k + 1, Len(sorted))

RECURSIVE SortByChecker(_)
SortByChecker(list) ==
    IF list = <<>> THEN <<>>
    ELSE InsertByChecker(SortByChecker(SubSeq(list, 1, Len(list) - 1)), list[Len(list)])

\* The query's ORDER BY checker.
OrderedByChecker(list) ==
    \A i, j \in DOMAIN list : i < j => ~Less(list[j].checker, list[i].checker)

\* The two loops of by_release_path over results none of which raises.
Unignored(all, ignores) ==
    LET Keep(cr) == MatchIgnore(cr, ignores) = "false" IN SelectSeq(all, Keep)

Ignored(all, ignores) ==
    LET Drop(cr) == MatchIgnore(cr, ignores) # "false" IN SelectSeq(all, Drop)

Primary(list) ==
    LET IsPrimary(cr) == cr.member_rel_path.none IN SortByChecker(SelectSeq(list, IsPrimary))

Members(list) ==
    LET keys == {list[i].member_rel_path.s :
                    i \in {j \in DOMAIN list : ~list[j].member_rel_path.none}} IN
    [k \in keys |->
        LET IsMember(cr) == cr.member_rel_path = Some(k) IN
        SortByChecker(SelectSeq(list, IsMember))]

NoMembers == [k \in {} |-> <<>>]

\* No call of by_release_path.
NoChecks ==
    [pc |-> "off", release |-> "ok", all |-> <<>>, ignores |-> <<>>,
     primary |-> <<>>, members |-> NoMembers, ignored |-> <<>>]

\* The check results the query returns, in its order, and the committee's
\* ignore rules; a release without committee or without revision.
CheckResultLists ==
    UNION {{all \in [1..n -> [id : 1..n, status : Statuses, checker : Checkers,
                              member_rel_path : {None, Some(<<"a">>)},
                              message : {Some(<<"b">>)}]] :
               /\ \A i \in 1..n : all[i].id = i
               /\ OrderedByChecker(all)} : n \in 0..NumResults}

IgnoreLists == UNION {[1..n -> IgnoreRules] : n \in 0..NumRules}

CheckInputs ==
    {[NoChecks EXCEPT !.pc = "call", !.all = a, !.ignores = g] :
        a \in CheckResultLists, g \in IgnoreLists}
    \cup {[NoChecks EXCEPT !.pc = "call", !.release = r] :
            r \in {"no_committee", "no_revision"}}

\* by_release_path: ValueError for a release without committee or
\* revision, re.error from the matcher, or the CheckResults.
ByReleasePath ==
    /\ checks.pc = "call"
    /\ IF checks.release # "ok"
       THEN checks' = [checks EXCEPT !.pc = "raised"]
       ELSE IF \E i \in DOMAIN checks.all :
                  MatchIgnore(checks.all[i], checks.ignores) = "raise"
       THEN checks' = [checks EXCEPT !.pc = "raised"]
       ELSE LET unignored_checks == Unignored(checks.all, checks.ignores) IN
            checks' = [checks EXCEPT !.pc = "returned",
                                     !.primary = Primary(unignored_checks),
                                     !.members = Members(unignored_checks),
                                     !.ignored = Ignored(checks.all, checks.ignores)]
    /\ UNCHANGED <<config, cache, job, running, check_task, workers, call, mon, proc,
                   termSent, killSent, tasks, now>>

----------------------------------------------------------------------------
(* Init *)

Constructed(limits) ==
    /\ \E lim \in limits : min_workers = lim[1] /\ max_workers = lim[2]
    /\ max_task_seconds \in TaskSecondsChoices
    /\ running = FALSE
    /\ check_task = 0
    /\ workers = EmptyPool
    /\ call = [c \in Callers |-> IdleCall]
    /\ mon = [m \in Mons |-> UnusedMon]
    /\ proc = [p \in Pids |-> "none"]
    /\ termSent = {}
    /\ killSent = {}
    /\ tasks = [t \in Tasks |-> NewTask]
    /\ job = [p \in Pids |-> NoTask]
    /\ now = 0

Init == Constructed(WorkerLimits) /\ cache = NoCache /\ checks = NoChecks

InitConc == Constructed(ConcLimits) /\ cache = NoCache /\ checks = NoChecks

----------------------------------------------------------------------------
(* start *)

\* asyncio.create_task(self.monitor_workers()), and start() returns.
NewMon == Cardinality(UsedMons) + 1

StartsInFlight == Cardinality({c \in Callers : call[c].pc = "start_spawn"})

StartCall_NoGuard(c) ==
    /\ call[c].pc = "idle"
    /\ ~Blocked
    /\ Cardinality(UsedMons) + StartsInFlight < MaxMon
    /\ running' = TRUE
    /\ IF min_workers = 0 \/ PoolFull(workers)
       THEN /\ mon' = [mon EXCEPT ![NewMon] = [UnusedMon EXCEPT !.pc = "created"]]
            /\ check_task' = NewMon
            /\ call' = call
       ELSE /\ call' = [call EXCEPT ![c] = [IdleCall EXCEPT !.pc = "start_spawn",
                                                            !.n = min_workers]]
            /\ UNCHANGED <<mon, check_task>>
    /\ UNCHANGED <<config, checks, cache, job, workers, proc, termSent, killSent, tasks, now>>

StartCall(c) ==
    /\ call[c].pc = "idle"
    /\ ~Blocked
    /\ IF running
       THEN UNCHANGED vars
       ELSE /\ Cardinality(UsedMons) + StartsInFlight < MaxMon
            /\ running' = TRUE
            /\ IF min_workers = 0 \/ PoolFull(workers)
               THEN /\ mon' = [mon EXCEPT ![NewMon] = [UnusedMon EXCEPT !.pc = "created"]]
                    /\ check_task' = NewMon
                    /\ call' = call
               ELSE /\ call' = [call EXCEPT ![c] = [IdleCall EXCEPT !.pc = "start_spawn",
                                                                    !.n = min_workers]]
                    /\ UNCHANGED <<mon, check_task>>
            /\ UNCHANGED <<config, checks, cache, job, workers, proc, termSent, killSent, tasks, now>>

StartSpawn(c) ==
    /\ call[c].pc = "start_spawn"
    /\ ~Blocked
    /\ \E outcome \in SpawnOutcomes :
        LET w == SpawnInsert(workers, outcome) IN
        /\ workers' = w
        /\ proc' = SpawnProc(outcome)
        /\ IF call[c].n = 1 \/ PoolFull(w)
           THEN /\ mon' = [mon EXCEPT ![NewMon] = [UnusedMon EXCEPT !.pc = "created"]]
                /\ check_task' = NewMon
                /\ call' = [call EXCEPT ![c] = IdleCall]
           ELSE /\ call' = [call EXCEPT ![c].n = @ - 1]
                /\ UNCHANGED <<mon, check_task>>
    /\ UNCHANGED <<config, checks, cache, job, running, termSent, killSent, tasks, now>>

----------------------------------------------------------------------------
(* stop, stop_all_workers *)

\* stop_all_workers up to its first wait: SIGTERM to every tracked worker
\* that has a PID, then the workers to wait for; with none, the pool is
\* cleared and stop() returns.
TermAll(w) == {k \in DOMAIN w : w[k].pid # NoPid}

StopAllCall(c, w) ==
    IF DOMAIN w = {} THEN IdleCall
    ELSE [IdleCall EXCEPT !.pc = "stop_wait", !.wait = DOMAIN w]

StopCall(c) ==
    /\ call[c].pc = "idle"
    /\ ~Blocked
    /\ IF ~running
       THEN UNCHANGED vars
       ELSE /\ running' = FALSE
            /\ IF check_task # 0 /\ mon[check_task].pc # "finished"
               THEN /\ mon' = [mon EXCEPT ![check_task].cancel = TRUE]
                    /\ call' = [call EXCEPT ![c] = [IdleCall EXCEPT !.pc = "stop_await",
                                                                    !.aw = check_task]]
                    /\ UNCHANGED <<termSent, workers>>
               ELSE /\ termSent' = termSent \cup TermAll(workers)
                    /\ call' = [call EXCEPT ![c] = StopAllCall(c, workers)]
                    /\ workers' = workers
                    /\ mon' = mon
            /\ UNCHANGED <<config, checks, cache, job, check_task, proc, killSent, tasks, now>>

\* await self.check_task returns once the monitoring task has ended.
StopAwait(c) ==
    /\ call[c].pc = "stop_await"
    /\ ~Blocked
    /\ mon[call[c].aw].pc = "finished"
    /\ termSent' = termSent \cup TermAll(workers)
    /\ call' = [call EXCEPT ![c] = StopAllCall(c, workers)]
    /\ UNCHANGED <<config, checks, cache, job, running, check_task, workers, mon, proc, killSent, tasks, now>>

GraceKill_Always(p) == WorkerProcess(p).pid # NoPid

\* wait_for timed out (the process has not exited) and the worker has a PID:
\* SIGKILL is sent.
GraceKill(p) == proc[p] = "alive" /\ WorkerProcess(p).pid # NoPid

ClearPool_KeepLive(w) == [k \in {j \in DOMAIN w : proc[j] = "alive"} |-> w[k]]

\* The pool when stop_all_workers has waited for its last worker.
ClearPool(w) == EmptyPool

\* One wait_for(worker.process.wait(), 5.0): it returns for a process that
\* has exited and times out for one that has not, which is sent SIGKILL.
\* After the last one the pool is cleared and stop() returns.
StopWait(c) ==
    /\ call[c].pc = "stop_wait"
    /\ ~Blocked
    /\ LET p == Min(call[c].wait)
           rest == call[c].wait \ {p} IN
        /\ killSent' = IF GraceKill(p) THEN killSent \cup {p} ELSE killSent
        /\ IF rest = {}
           THEN /\ workers' = ClearPool(workers)
                /\ call' = [call EXCEPT ![c] = IdleCall]
           ELSE /\ workers' = workers
                /\ call' = [call EXCEPT ![c].wait = rest]
    /\ UNCHANGED <<config, checks, cache, job, running, check_task, mon, proc, termSent, tasks, now>>

----------------------------------------------------------------------------
(* monitor_workers, check_workers *)

\* while self.running: a new cycle of check_workers starts, or the loop ends.
\* (retry records that the cycle before this one raised.)
MonRun(m) ==
    /\ mon[m].pc \in {"created", "sleep", "error_sleep"}
    /\ ~mon[m].cancel
    /\ ~Blocked
    /\ IF ~running
       THEN /\ mon' = [mon EXCEPT ![m] = [UnusedMon EXCEPT !.pc = "finished"]]
            /\ workers' = workers
       ELSE \E obs \in ObsOf(DOMAIN workers) :
            LET r == [UnusedMon EXCEPT !.pc = "scan", !.items = DOMAIN workers,
                                      !.todo = DOMAIN workers,
                                      !.retry = (mon[m].pc = "error_sleep")] IN
            /\ mon' = [mon EXCEPT ![m] = ScanMon(r, obs)]
            /\ workers' = ScanPool(r, obs)
    /\ UNCHANGED <<config, checks, cache, job, running, check_task, call, proc, termSent, killSent,
                   tasks, now>>

\* What os.kill(pid, SIGTERM) may give: the signal is delivered, the process
\* is gone (ProcessLookupError), or another error is raised.
SignalOutcomes(p) ==
    IF proc[p] = "alive" THEN {"delivered", "error"} ELSE {"gone"}

Marked_AfterSignal(t, outcome) == IF outcome = "delivered" THEN t ELSE NoTask

\* terminate_long_running_task sets the task's fields before it signals the
\* worker, and check_task_duration returns True whatever the signal gave.
Marked(t, outcome) == t

\* check_task_duration resumes from the task query: the task is within its
\* time, or terminate_long_running_task marks it FAILED and sends SIGTERM;
\* either way the transaction's commit is awaited next. (seen records what
\* the query returned: the worker, its task and how long the task has run;
\* sig records what the signals of the cycle gave.)
MonGet(m) ==
    /\ mon[m].pc = "ctd_get"
    /\ ~mon[m].cancel
    /\ ~Blocked
    /\ LET pid == mon[m].cur
           t == ActiveTaskOf(tasks, pid) IN
       IF Unchecked(tasks, t)
       THEN /\ mon' = [mon EXCEPT ![m].pc = "ctd_commit",
                                  ![m].seen = @ \cup Unstamped(tasks, pid, t)]
            /\ termSent' = termSent
       ELSE IF OverLimit(tasks[t].started, now)
       THEN \E outcome \in SignalOutcomes(pid) :
            /\ mon' = [mon EXCEPT ![m].pc = "ctd_commit",
                                  ![m].task = Marked(t, outcome),
                                  ![m].stamp = now,
                                  ![m].seen = @ \cup {<<pid, t, now - tasks[t].started>>},
                                  ![m].sig = @ \cup {<<pid, outcome>>}]
            /\ termSent' = IF WorkerProcess(pid).pid # NoPid
                           THEN termSent \cup {pid} ELSE termSent
       ELSE /\ mon' = [mon EXCEPT ![m].pc = "ctd_commit",
                                  ![m].seen = @ \cup {<<pid, t, now - tasks[t].started>>}]
            /\ termSent' = termSent
    /\ UNCHANGED <<config, checks, cache, job, running, check_task, workers, call, proc, killSent,
                   tasks, now>>

\* The transaction commits: a task marked FAILED is written, its worker is
\* marked for removal, and the loop goes on with the next worker.
MonCommit(m) ==
    /\ mon[m].pc = "ctd_commit"
    /\ ~mon[m].cancel
    /\ ~Blocked
    /\ \E obs \in ObsOf(mon[m].todo) :
        LET failed == mon[m].task # NoTask
            r == [mon[m] EXCEPT !.pc = "scan",
                                !.exited = IF failed THEN @ \cup {mon[m].cur} ELSE @] IN
        /\ tasks' = IF failed THEN MarkFailed(tasks, mon[m].task, mon[m].stamp)
                    ELSE tasks
        /\ mon' = [mon EXCEPT ![m] = ScanMon(r, obs)]
        /\ workers' = ScanPool(r, obs)
    /\ UNCHANGED <<config, checks, cache, job, running, check_task, call, proc, termSent, killSent, now>>

\* spawn_worker, called by maintain_worker_pool, resumes from the
\* subprocess creation.
MonSpawn(m) ==
    /\ mon[m].pc = "mw_spawn"
    /\ ~mon[m].cancel
    /\ ~Blocked
    /\ \E outcome \in SpawnOutcomes :
        LET w == SpawnInsert(workers, outcome) IN
        /\ workers' = w
        /\ proc' = SpawnProc(outcome)
        /\ mon' = [mon EXCEPT ![m] = Maintain(mon[m], w)]
    /\ UNCHANGED <<config, checks, cache, job, running, check_task, call, termSent, killSent, tasks, now>>

ResetAfter_OnlyWhenDiagOk(ts, pids, raised) ==
    IF raised THEN ts ELSE ResetUpdate(ts, pids)

\* The task store after reset_broken_tasks, whose diagnostic pass raised or
\* not: an exception of the pass is caught and dropped, and the bulk update
\* is executed.
ResetAfter(ts, pids, raised) == ResetUpdate(ts, pids)

\* reset_broken_tasks resumes from its bulk update, and the cycle is over:
\* the loop sleeps. (diag records that the diagnostic pass raised.)
ResetStep(m, raised) ==
    /\ mon[m].pc = "rb_exec"
    /\ ~mon[m].cancel
    /\ ~Blocked
    /\ tasks' = ResetAfter(tasks, mon[m].pids, raised)
    /\ mon' = [mon EXCEPT ![m].pc = "sleep",
                           ![m].rowcount = RowCount(tasks, mon[m].pids),
                           ![m].diag = raised]
    /\ UNCHANGED <<config, checks, cache, job, running, check_task, workers, call, proc, termSent,
                   killSent, now>>

MonReset(m) == ResetStep(m, FALSE)

\* The same with _log_tasks_held_by_unmanaged_pids raising (its query
\* fails).
MonDiagRaise(m) == ResetStep(m, TRUE)

OnError_LoopEnds(r) == [UnusedMon EXCEPT !.pc = "finished"]

\* except Exception in monitor_workers: the exception is logged and the loop
\* sleeps for a second before it goes round again.
OnError(r) == [UnusedMon EXCEPT !.pc = "error_sleep"]

\* check_workers raises before its first suspension (the task store gives
\* no session).
MonRaise(m) ==
    /\ mon[m].pc \in {"created", "sleep", "error_sleep"}
    /\ ~mon[m].cancel
    /\ ~Blocked
    /\ running
    /\ mon' = [mon EXCEPT ![m] = OnError(mon[m])]
    /\ UNCHANGED <<config, checks, cache, job, running, check_task, workers, call, proc, termSent,
                   killSent, tasks, now>>

\* check_task.cancel(): CancelledError is raised at the await the task is
\* suspended in; an open transaction is rolled back and the loop ends.
MonCancelled(m) ==
    /\ mon[m].cancel
    /\ mon[m].pc \notin {"unused", "finished"}
    /\ ~Blocked
    /\ mon' = [mon EXCEPT ![m] = [UnusedMon EXCEPT !.pc = "finished"]]
    /\ UNCHANGED <<config, checks, cache, job, running, check_task, workers, call, proc, termSent,
                   killSent, tasks, now>>

----------------------------------------------------------------------------
(* The worker processes and the clock *)

\* A worker process ends (by itself, or killed) and has been reaped: its
\* PID is gone from the process table. Until then it counts as alive (signal
\* 0 reaches it and its handle has no returncode).
ProcExit(p) ==
    /\ proc[p] = "alive"
    /\ proc' = [proc EXCEPT ![p] = "exited"]
    /\ job' = [job EXCEPT ![p] = NoTask]
    /\ UNCHANGED <<config, checks, cache, running, check_task, workers, call, mon, termSent,
                   killSent, tasks, now>>

\* The queued task that is claimed next. (Queued tasks are all alike: which
\* of them is taken makes no difference to the manager.)
NextQueued ==
    IF \E t \in Tasks : tasks[t].status = "QUEUED"
    THEN Min({t \in Tasks : tasks[t].status = "QUEUED"})
    ELSE NoTask

\* A worker process that is executing no task claims a queued task and
\* starts executing it.
ClaimTask(p, t) ==
    /\ proc[p] = "alive"
    /\ job[p] = NoTask
    /\ t = NextQueued
    /\ tasks[t].status = "QUEUED"
    /\ ActiveTaskOf(tasks, p) = NoTask
    /\ tasks' = [tasks EXCEPT ![t] = [@ EXCEPT !.status = "ACTIVE", !.pid = p,
                                               !.started = now]]
    /\ job' = [job EXCEPT ![p] = t]
    /\ UNCHANGED <<config, checks, cache, running, check_task, workers, call, mon, proc,
                   termSent, killSent, now>>

\* A worker process completes the task it holds.
CompleteTask(p, t) ==
    /\ proc[p] = "alive"
    /\ tasks[t].status = "ACTIVE"
    /\ tasks[t].pid = p
    /\ tasks' = [tasks EXCEPT ![t] = [@ EXCEPT !.status = "COMPLETED",
                                               !.completed = now]]
    /\ job' = [job EXCEPT ![p] = NoTask]
    /\ UNCHANGED <<config, checks, cache, running, check_task, workers, call, mon, proc,
                   termSent, killSent, now>>

\* A second passes while a task is being processed that has not run for
\* longer than the limit. (Once every task in progress is over the limit,
\* more time changes nothing the manager looks at.)
Tick ==
    /\ now < MaxTime
    /\ \E t \in Tasks : /\ tasks[t].status = "ACTIVE"
                         /\ now - tasks[t].started <= max_task_seconds
    /\ now' = now + 1
    /\ UNCHANGED <<config, checks, cache, job, running, check_task, workers, call, mon, proc,
                   termSent, killSent, tasks>>

\* A worker process claims a queued task and sets no started timestamp.
ClaimUnstamped(p, t) ==
    /\ proc[p] = "alive"
    /\ job[p] = NoTask
    /\ t = NextQueued
    /\ tasks[t].status = "QUEUED"
    /\ ActiveTaskOf(tasks, p) = NoTask
    /\ tasks' = [tasks EXCEPT ![t] = [@ EXCEPT !.status = "ACTIVE", !.pid = p]]
    /\ job' = [job EXCEPT ![p] = t]
    /\ UNCHANGED <<config, checks, cache, running, check_task, workers, call, mon, proc,
                   termSent, killSent, now>>

\* A second passes while a task without started is being processed.
TickUnstamped ==
    /\ now < MaxTime
    /\ \E t \in Tasks : tasks[t].status = "ACTIVE" /\ tasks[t].started = Null
    /\ now' = now + 1
    /\ UNCHANGED <<config, checks, cache, job, running, check_task, workers, call, mon, proc,
                   termSent, killSent, tasks>>

----------------------------------------------------------------------------
(* Specifications *)

Environment ==
    \/ \E p \in Pids : ProcExit(p)
    \/ \E p \in Pids, t \in Tasks : ClaimTask(p, t)
    \/ \E p \in Pids, t \in Tasks : CompleteTask(p, t)
    \/ Tick

Monitor ==
    \/ \E m \in Mons : MonRun(m)
    \/ \E m \in Mons : MonGet(m)
    \/ \E m \in Mons : MonCommit(m)
    \/ \E m \in Mons : MonSpawn(m)
    \/ \E m \in Mons : MonReset(m)
    \/ \E m \in Mons : MonCancelled(m)

Calls(C) ==
    \/ \E c \in C : StartCall(c)
    \/ \E c \in C : StartSpawn(c)
    \/ \E c \in C : StopCall(c)
    \/ \E c \in C : StopAwait(c)
    \/ \E c \in C : StopWait(c)

\* The application's lifecycle: start() at startup and stop() at shutdown,
\* called from one task; a second start() or stop() finds the flag set.
AppStart(c) == (running \/ UsedMons = {}) /\ StartCall(c)

Next ==
    \/ \E c \in Lifecycle : AppStart(c)
    \/ \E c \in Lifecycle : StartSpawn(c)
    \/ \E c \in Lifecycle : StopCall(c)
    \/ \E c \in Lifecycle : StopAwait(c)
    \/ \E c \in Lifecycle : StopWait(c)
    \/ Monitor
    \/ Environment

Spec == Init /\ [][Next]_vars

\* A manager that is started and keeps running. The event loop runs every
\* task that is ready: a monitoring task that can take a step takes one.
InitLive == Constructed(LiveLimits) /\ cache = NoCache /\ checks = NoChecks

Cycle ==
    \/ \E m \in Mons : MonRun(m)
    \/ \E m \in Mons : MonGet(m)
    \/ \E m \in Mons : MonCommit(m)
    \/ \E m \in Mons : MonSpawn(m)
    \/ \E m \in Mons : MonReset(m)

NextLive ==
    \/ \E c \in Lifecycle : AppStart(c)
    \/ \E c \in Lifecycle : StartSpawn(c)
    \/ Cycle
    \/ Environment

SpecLive == InitLive /\ [][NextLive]_vars /\ WF_vars(Cycle)

\* The task store has other clients: a worker process that this manager did
\* not spawn (of an earlier run, or of another instance of the application)
\* is running, and claims and completes tasks like any worker.
ForeignPid == MaxPid

ForeignWorker ==
    /\ proc[ForeignPid] = "none"
    /\ proc' = [proc EXCEPT ![ForeignPid] = "alive"]
    /\ UNCHANGED <<config, checks, cache, job, running, check_task, workers, call, mon, termSent,
                   killSent, tasks, now>>

NextForeign == Next \/ ForeignWorker

SpecForeign == Init /\ [][NextForeign]_vars

\* The task store fails now and then (for the limits of LiveLimits).
NextFault == Next \/ (\E m \in Mons : MonRaise(m))

SpecFault == InitLive /\ [][NextFault]_vars

\* Workers that set no started timestamp on the tasks they claim, under a
\* manager that keeps running.
NextUnstamped ==
    \/ NextLive
    \/ \E p \in Pids, t \in Tasks : ClaimUnstamped(p, t)
    \/ TickUnstamped

SpecUnstamped == InitLive /\ [][NextUnstamped]_vars

\* The diagnostic pass of reset_broken_tasks fails now and then (for the
\* limits of LiveLimits).
NextDiag == Next \/ (\E m \in Mons : MonDiagRaise(m))

SpecDiag == InitLive /\ [][NextDiag]_vars

\* The application loads the admins at startup, before the manager is
\* started.
InitCache == Constructed(ConcLimits) /\ cache \in CacheInputs /\ checks = NoChecks

NextCache == StartupRead \/ StartupFetch \/ StartupSave

SpecCache == InitCache /\ [][NextCache]_vars

\* The check results of a release path are read.
InitChecks == Constructed(ConcLimits) /\ cache = NoCache /\ checks \in CheckInputs

NextChecks == ByReleasePath

SpecChecks == InitChecks /\ [][NextChecks]_vars

\* start() and stop() are called from several tasks, and interleave at their
\* suspension points.
NextConc == Calls(Callers) \/ Monitor \/ (\E p \in Pids : ProcExit(p))

SpecConc == InitConc /\ [][NextConc]_vars

----------------------------------------------------------------------------
(* Claims *)

\* Process p is executing task t.
Executing(p, t) == proc[p] = "alive" /\ job[p] = t

\* A step of monitoring task m (the other processes never change mon).
MonStep(m) == mon'[m] # mon[m]

AfterRemoval(m) == mon[m].pc \in {"mw_spawn", "mw_spin", "rb_exec", "sleep"}

\* C1: under any interleaving of start(), stop(), spawn_worker() and
\* check_workers() the pool never holds more than max_workers entries.
C1_PoolWithinMax == PoolSize(workers) <= max_workers

C3_Kept ==
    \A m \in Mons : \A s \in mon[m].seen :
        s[3] <= max_task_seconds =>
            /\ s[1] \in DOMAIN workers
            /\ s[1] \notin mon[m].exited
            /\ s[1] \notin termSent \cup killSent

C3_Untouched ==
    \A m \in Mons : \A s \in mon'[m].seen :
        (s[3] <= max_task_seconds /\ MonStep(m)) => tasks'[s[2]] = tasks[s[2]]

C3_WithinLimitUntouched == [][C3_Kept' /\ C3_Untouched]_vars

C3_Witness ==
    \E m \in Mons : \E s \in mon[m].seen :
        /\ s[3] = max_task_seconds
        /\ mon[m].pc = "sleep"
        /\ tasks[s[2]].status = "ACTIVE"
        /\ tasks[s[2]].pid = s[1]
        /\ s[1] \in DOMAIN workers

\* C4: the bulk update that ends a cycle leaves every task that was ACTIVE
\* under a PID that is no key of the pool QUEUED, with pid and started null.
C4_Reset ==
    \A m \in Mons :
        (mon[m].pc = "rb_exec" /\ mon'[m].pc = "sleep") =>
            \A t \in Tasks :
                (tasks[t].status = "ACTIVE" /\ tasks[t].pid \notin DOMAIN workers) =>
                    /\ tasks'[t].status = "QUEUED"
                    /\ tasks'[t].pid = NoPid
                    /\ tasks'[t].started = Null

C4_OrphansReset == [][C4_Reset]_vars

C4_Witness ==
    \E m \in Mons : \E t \in Tasks :
        /\ mon[m].pc = "sleep"
        /\ mon[m].rowcount > 0
        /\ tasks[t].status = "QUEUED"
        /\ tasks[t].pid = NoPid
        /\ tasks[t].started = Null

\* C5: as long as reconciliation cycles keep being completed, a task that is
\* ACTIVE under a PID that is no pool key, or whose process is gone, or that
\* has run for more than max_task_seconds, does not stay ACTIVE under that
\* PID. (A task in such a state stays in it as long as it stays ACTIVE under
\* the PID: C5_StaleWhileHeld. So it stops being ACTIVE under the PID if and
\* only if it does not stay in such a state for ever.)
Held(t, p) == tasks[t].status = "ACTIVE" /\ tasks[t].pid = p

Stale(t, p) ==
    /\ Held(t, p)
    /\ \/ p \notin DOMAIN workers
       \/ proc[p] # "alive"
       \/ tasks[t].started # Null /\ now - tasks[t].started > max_task_seconds

CyclesKeepRunning == []<><<\E m \in Mons : MonReset(m)>>_vars

C5_StaleWhileHeld ==
    \A t \in Tasks : \A p \in Pids : (Stale(t, p) /\ Held(t, p)') => Stale(t, p)'

C5_StaleOwnerResolved ==
    /\ [][C5_StaleWhileHeld]_vars
    /\ CyclesKeepRunning => \A t \in Tasks : \A p \in Pids : []<>~Stale(t, p)

\* A task is ACTIVE under a process that has exited and is still a pool key.
C5_Witness ==
    \E t \in Tasks : \E p \in DOMAIN workers :
        /\ Held(t, p)
        /\ proc[p] = "exited"
        /\ running
        /\ \E m \in Mons : mon[m].pc = "sleep" /\ ~mon[m].cancel

\* C6: in stop(), SIGKILL goes only to a worker that was sent SIGTERM and has
\* not exited when its wait ends; every tracked worker is sent SIGTERM and is
\* waited for, each wait that ends with the process still there sends
\* SIGKILL, and stop() returns only after the last wait.
C6_KillOnlyAfterTerm ==
    \A p \in killSent' \ killSent :
        /\ p \in termSent
        /\ proc[p] = "alive"
        /\ \E c \in Callers : call[c].pc = "stop_wait" /\ p \in call[c].wait

C6_AllWaitedFor ==
    \A c \in Callers :
        /\ (call[c].pc # "stop_wait" /\ call'[c].pc = "stop_wait") =>
              /\ call'[c].wait = DOMAIN workers
              /\ DOMAIN workers \subseteq termSent'
        /\ (call[c].pc = "stop_wait" /\ call'[c] # call[c]) =>
              \E p \in call[c].wait :
                  /\ call'[c].wait = call[c].wait \ {p}
                  /\ proc[p] = "alive" => p \in killSent'
                  /\ call'[c].pc = "idle" => call[c].wait = {p}

C6_GracefulThenForceful == [][C6_KillOnlyAfterTerm /\ C6_AllWaitedFor]_vars

C6_Witness ==
    \E p \in Pids :
        /\ p \in killSent
        /\ p \in termSent
        /\ \A c \in Callers : call[c].pc = "idle"
        /\ ~running

\* C7: when stop(), called on a running manager, returns, the pool is empty.
StopReturns ==
    \/ \E c \in Callers : call[c].pc \in {"stop_await", "stop_wait"} /\ call'[c].pc = "idle"
    \/ running /\ ~running' /\ call' = call

C7_StopEmptiesPool == [][StopReturns => DOMAIN workers' = {}]_vars

\* stop() has returned and a worker that was sent SIGTERM and SIGKILL is
\* still there.
C7_Witness ==
    /\ ~running
    /\ \A c \in Callers : call[c].pc = "idle"
    /\ DOMAIN workers = {}
    /\ \E p \in killSent : proc[p] = "alive"

\* C8: once stop() has returned, every process the manager spawned has
\* exited or was sent SIGTERM or SIGKILL.
C8_NoDangling ==
    (~running /\ \A c \in Callers : call[c].pc \notin {"stop_await", "stop_wait"}) =>
        \A p \in Pids : proc[p] = "alive" => p \in termSent \cup killSent

\* C9: at most one check_workers() pass is in progress at any time (a pass
\* whose task has been cancelled and only has to unwind is not counted).
C9_OnePass == Cardinality({m \in Mons : InCheckWorkers(m) /\ ~mon[m].cancel}) <= 1

\* C10: the manager never changes a task its worker has marked COMPLETED.
C10_CompletedStays ==
    [][\A t \in Tasks : tasks[t].status = "COMPLETED" =>
                            tasks'[t].status = "COMPLETED"]_vars

\* C11: no task is executed by two worker processes at the same time: a
\* task the manager has reset and another worker has claimed is no longer
\* being executed by the process that held it.
C11_OneExecutor ==
    \A t \in Tasks : Cardinality({p \in Pids : Executing(p, t)}) <= 1

\* C12: maintain_worker_pool() terminates: it never reaches a state in which
\* its loop goes round for ever (the pool below min_workers and spawn_worker
\* returning at once because the pool is at max_workers).
C12_MaintainTerminates == \A m \in Mons : mon[m].pc # "mw_spin"

\* C13: when a cycle of check_workers ends with min_workers <= max_workers,
\* the pool holds every worker of the cycle's list that was found running
\* and within its time (Survivors) and the workers spawned in the cycle, its
\* size is max(min_workers, number of survivors), and nothing was spawned
\* if the survivors were min_workers or more.
Survivors(m) == mon[m].items \ mon[m].exited

Fresh(m) == DOMAIN workers \ mon[m].items

CycleOver(m) == mon[m].pc \in {"rb_exec", "sleep"}

C13_PoolAfterCycle ==
    \A m \in Mons :
        (CycleOver(m) /\ min_workers <= max_workers) =>
            /\ DOMAIN workers = Survivors(m) \cup Fresh(m)
            /\ \A p \in Fresh(m) : proc[p] # "none"
            /\ PoolSize(workers) =
                  IF Cardinality(Survivors(m)) > min_workers
                  THEN Cardinality(Survivors(m)) ELSE min_workers
            /\ Cardinality(Survivors(m)) >= min_workers => Fresh(m) = {}

C13_Witness ==
    \E m \in Mons :
        /\ mon[m].pc = "sleep"
        /\ min_workers <= max_workers
        /\ Survivors(m) # {}
        /\ Fresh(m) # {}
        /\ PoolSize(workers) = min_workers

\* C14: a spawn_worker() call in which the process creation fails or gives
\* no PID returns with the pool unchanged, and start() goes on: when start()
\* returns, the manager is running and its monitoring task is created,
\* whatever the spawns gave.
SpawnReturns ==
    \/ \E c \in Callers : call[c].pc = "start_spawn" /\ call'[c] # call[c]
    \/ \E m \in Mons : mon[m].pc = "mw_spawn" /\ ~mon[m].cancel /\ MonStep(m)

StartReturns ==
    \E c \in Callers : call[c].pc = "start_spawn" /\ call'[c].pc = "idle"

C14_FailedSpawn == (SpawnReturns /\ proc' = proc) => workers' = workers

C14_StartGoesOn ==
    /\ \A c \in Callers :
          (call[c].pc = "start_spawn" /\ call'[c] # call[c]) =>
              call'[c].pc \in {"start_spawn", "idle"}
    /\ StartReturns =>
          /\ running'
          /\ check_task' # 0
          /\ mon'[check_task'].pc = "created"

C14_SpawnNeverRaises == [][C14_FailedSpawn /\ C14_StartGoesOn]_vars

\* start() has returned after every initial spawn failed.
C14_Witness ==
    /\ running
    /\ min_workers > 0
    /\ \A c \in Callers : call[c].pc = "idle"
    /\ check_task # 0
    /\ mon[check_task].pc = "created"
    /\ DOMAIN workers = {}
    /\ \A p \in Pids : proc[p] = "none"

\* C15: a cycle of check_workers that raises does not end the monitoring
\* loop: the loop sleeps and, the manager running and the task not
\* cancelled, its next step is another attempt at check_workers; the loop
\* ends only when it is cancelled or finds running false.
Attempt(m) == InCheckWorkers(m) \/ mon[m].pc = "error_sleep"

C15_Retry ==
    \A m \in Mons :
        (mon[m].pc = "error_sleep" /\ MonStep(m) /\ running /\ ~mon[m].cancel) =>
            Attempt(m)'

C15_EndsOnlyStopped ==
    \A m \in Mons :
        (mon[m].pc # "finished" /\ mon'[m].pc = "finished") =>
            mon[m].cancel \/ ~running

C15_LoopSurvives == [][C15_Retry /\ C15_EndsOnlyStopped]_vars

\* After a cycle that raised, the loop is in check_workers again.
C15_Witness ==
    \E m \in Mons : mon[m].retry /\ InCheckWorkers(m) /\ running /\ ~mon[m].cancel

\* C16: start() called on a running manager and stop() called on a manager
\* that is not running change nothing: the pool, the running flag, the
\* monitoring task, the task store and all the rest stay as they are.
C16_StartNoOp == \A c \in Callers : (running /\ StartCall(c)) => UNCHANGED vars

C16_StopNoOp == \A c \in Callers : (~running /\ StopCall(c)) => UNCHANGED vars

C16_Idempotent == [][C16_StartNoOp /\ C16_StopNoOp]_vars

\* A started manager with its pool at min_workers: where a second start()
\* would be called.
C16_Witness ==
    /\ running
    /\ \A c \in Callers : call[c].pc = "idle"
    /\ check_task # 0
    /\ PoolSize(workers) = min_workers
    /\ PoolSize(workers) < max_workers
    /\ \E p \in Pids : proc[p] = "none"

\* C17: when check_task_duration has found a task over the limit, the commit
\* records it FAILED with the error and a completion time, and the worker is
\* marked for removal (or already removed when the step ends the loop),
\* whether the SIGTERM was delivered, found the process gone, or raised
\* another error.
FoundOver(m) ==
    {s \in mon[m].seen : s[1] = mon[m].cur /\ s[3] > max_task_seconds}

C17_Recorded ==
    \A m \in Mons :
        (mon[m].pc = "ctd_commit" /\ mon'[m].pc # "ctd_commit" /\ ~mon[m].cancel) =>
            \A s \in FoundOver(m) :
                /\ tasks'[s[2]].status = "FAILED"
                /\ tasks'[s[2]].error = TimeLimitError
                /\ tasks'[s[2]].completed # Null
                /\ s[1] \in mon'[m].exited
                /\ AfterRemoval(m)' => s[1] \notin DOMAIN workers'

ScanFrom(m) ==
    IF mon[m].pc = "ctd_commit" THEN mon[m].todo ELSE DOMAIN workers

ScanStep(m) ==
    /\ mon[m].pc \in {"created", "sleep", "error_sleep", "ctd_commit"}
    /\ mon'[m].pc \in {"ctd_get", "mw_spawn", "mw_spin", "rb_exec"}

C18_Reported ==
    \A m \in Mons :
        ScanStep(m) =>
            \A p \in ScanFrom(m) :
                (proc[p] = "exited" /\ p \notin mon'[m].todo) =>
                    /\ p \in mon'[m].exited
                    /\ mon'[m].cur # p

C18_Removed ==
    \A m \in Mons : AfterRemoval(m) => mon[m].exited \cap DOMAIN workers = {}

C18_Terminal ==
    /\ \A p \in DOMAIN workers' \ DOMAIN workers : proc[p] = "none"
    /\ \A m \in Mons :
          /\ mon'[m].todo \subseteq DOMAIN workers'
          /\ mon'[m].pc = "ctd_get" => mon'[m].cur \in DOMAIN workers'

C18_DeadWorkerRemoved == [][C18_Reported /\ C18_Removed' /\ C18_Terminal]_vars

\* A cycle is over that found a worker's process gone and removed it.
C18_Witness ==
    \E m \in Mons : \E p \in mon[m].exited :
        /\ mon[m].pc = "sleep"
        /\ proc[p] = "exited"
        /\ p \notin termSent
        /\ p \notin DOMAIN workers
        /\ DOMAIN workers # {}

\* C19: when admins_startup_load() has returned: with a valid cache file
\* the installed admins are the cached set and LDAP was not asked; without
\* one and with LDAP answering, the fetched set is in the cache file and
\* installed; with LDAP failing nothing is installed and no file is written.
C19_StartupLoad ==
    cache.pc = "done" =>
        IF ~ReadFromFile(cache.file0).none
        THEN /\ cache.admins = Installed(Parse(cache.file0.list))
             /\ ~cache.queried
        ELSE IF cache.ldap.up
        THEN /\ ReadFromFile(cache.file) = [none |-> FALSE, admins |-> cache.ldap.users]
             /\ cache.admins = Installed(cache.ldap.users)
        ELSE /\ cache.admins = NotInstalled
             /\ cache.file = cache.file0

\* C20: a cycle of check_workers goes through its steps in the order checks
\* of all tracked workers, removal of the marked ones, top-up, orphan reset:
\* the top-up begins with every tracked worker checked and no marked worker
\* in the pool, the reset begins with the pool at min_workers at least and
\* with the pool's keys as they are after the top-up, the pool only grows
\* between the removal and the reset, and the reset leaves alone every ACTIVE
\* task of a worker spawned in this cycle.
AfterChecks(m) == mon[m].pc \in {"mw_spawn", "mw_spin", "rb_exec"}

BeforeTopUp(m) ==
    mon[m].pc \in {"created", "sleep", "error_sleep", "ctd_get", "ctd_commit"}

C20_Phases ==
    \A m \in Mons :
        ~mon[m].cancel =>
            /\ AfterChecks(m) =>
                    /\ mon[m].todo = {}
                    /\ DOMAIN workers \cap mon[m].exited = {}
                    /\ Survivors(m) \subseteq DOMAIN workers
            /\ mon[m].pc = "rb_exec" =>
                    /\ mon[m].pids = DOMAIN workers
                    /\ PoolSize(workers) >= min_workers

C20_Steps ==
    \A m \in Mons :
        ~mon[m].cancel =>
            /\ AfterChecks(m) =>
                    /\ mon'[m].pc \in {"mw_spawn", "mw_spin", "rb_exec", "sleep"}
                    /\ DOMAIN workers \subseteq DOMAIN workers'
            /\ (BeforeTopUp(m) /\ DOMAIN workers' # DOMAIN workers) =>
                    /\ mon'[m].pc \in {"mw_spawn", "mw_spin", "rb_exec"}
                    /\ mon'[m].todo = {}
                    /\ DOMAIN workers' = DOMAIN workers \ mon'[m].exited
            /\ (mon[m].pc = "rb_exec" /\ mon'[m].pc = "sleep") =>
                    \A t \in Tasks :
                        (tasks[t].status = "ACTIVE" /\ tasks[t].pid \in Fresh(m))
                            => tasks'[t] = tasks[t]

C20_CycleOrder == []C20_Phases /\ [][C20_Steps]_vars

\* The checks marked a worker, the top-up spawned one, and the reset is about
\* to run its update while the spawned worker holds an ACTIVE task.
C20_Witness ==
    \E m \in Mons :
        /\ mon[m].pc = "rb_exec"
        /\ ~mon[m].cancel
        /\ mon[m].exited # {}
        /\ \E t \in Tasks :
              tasks[t].status = "ACTIVE" /\ tasks[t].pid \in Fresh(m)


\* C21: the state reached by stop() is terminal: once a started manager has
\* been stopped, its monitoring task has ended and no call is in progress,
\* no step makes it running again,
\* adds a worker to the pool or creates a monitoring task.
Stopped ==
    /\ ~running
    /\ UsedMons # {}
    /\ \A m \in UsedMons : mon[m].pc = "finished"
    /\ \A c \in Callers : call[c].pc = "idle"

C21_StoppedTerminal ==
    [][Stopped => /\ ~running'
                  /\ DOMAIN workers' \subseteq DOMAIN workers
                  /\ UsedMons' = UsedMons]_vars


\* C22: a tracked worker whose liveness probe fails with a permission error
\* is found not running: the cycle marks it like an exited worker, makes no
\* timeout check for it and sends it no signal, and once the checks are
\* over it is in the pool no more.
C22_DeniedIsDead ==
    \A m \in Mons :
        ~mon[m].cancel =>
            \A p \in mon[m].eperm :
                /\ p \in mon[m].exited
                /\ mon[m].cur # p
                /\ \A s \in mon[m].seen : s[1] # p
                /\ \A g \in mon[m].sig : g[1] # p
                /\ p \notin termSent \cup killSent
                /\ (AfterChecks(m) \/ mon[m].pc = "sleep") => p \notin DOMAIN workers

\* A cycle is over in which a live worker's probe was denied: the worker is
\* out of the pool, alive and unsignalled.
C22_Witness ==
    \E m \in Mons :
        /\ mon[m].pc = "sleep"
        /\ ~mon[m].cancel
        /\ \E p \in mon[m].eperm : proc[p] = "alive" /\ p \notin DOMAIN workers


\* C23: a diagnostic pass that raises does not keep reset_broken_tasks from
\* its bulk update: the reset changes the task store as the update over the
\* pool's keys does and counts the same rows, whether the pass raised or not.
C23_ResetDespiteDiag ==
    [][\A m \in Mons :
          (mon[m].pc = "rb_exec" /\ mon'[m].pc = "sleep" /\ ~mon[m].cancel) =>
              /\ tasks' = ResetUpdate(tasks, mon[m].pids)
              /\ mon'[m].rowcount = RowCount(tasks, mon[m].pids)]_vars

\* The diagnostic pass raised and the reset has requeued a task.
C23_Witness ==
    \E m \in Mons :
        /\ mon[m].pc = "sleep"
        /\ ~mon[m].cancel
        /\ mon[m].diag
        /\ mon[m].rowcount > 0
        /\ \E t \in Tasks : tasks[t].status = "QUEUED" /\ tasks[t].pid = NoPid


\* C24: every entry of the pool is kept under the PID of its own handle,
\* and that PID is not null: a process that was given no PID is not in the
\* pool.
C24_KeyedByPid ==
    \A p \in DOMAIN workers : workers[p].pid = p /\ p # NoPid /\ p \in Pids

\* start() has returned with one worker in the pool and one spawn that
\* yielded no entry.
C24_Witness ==
    /\ running
    /\ \A c \in Callers : call[c].pc = "idle"
    /\ check_task # 0
    /\ mon[check_task].pc = "created"
    /\ min_workers = 2
    /\ \E p \in Pids :
          /\ DOMAIN workers = {p}
          /\ workers[p].pid = p
          /\ \A q \in Pids \ {p} : proc[q] = "none"


\* C25: the manager only moves tasks out of ACTIVE: a step of the manager
\* (of its monitoring task, or of a start() or stop() call) that changes a
\* task finds it ACTIVE and leaves it QUEUED with pid and started cleared,
\* or FAILED with error and completed set; a step of start() or stop()
\* changes no task.
Requeued(t) ==
    /\ tasks'[t].status = "QUEUED"
    /\ tasks'[t].pid = NoPid
    /\ tasks'[t].started = Null

Failed(t) ==
    /\ tasks'[t].status = "FAILED"
    /\ tasks'[t].error # NoError
    /\ tasks'[t].completed # Null

ManagerStep == mon' # mon \/ call' # call \/ workers' # workers

C25_OnlyOutOfActive ==
    [][ManagerStep =>
          /\ \A t \in Tasks :
                tasks'[t] # tasks[t] =>
                    tasks[t].status = "ACTIVE" /\ (Requeued(t) \/ Failed(t))
          /\ call' # call => tasks' = tasks]_vars


\* C26: SIGTERM and SIGKILL go only to PIDs that are keys of the pool when
\* they are sent; the reset of an ACTIVE task whose PID is not in the pool
\* sends no signal, whether that process is alive or not.
Signalled == (termSent' \ termSent) \cup (killSent' \ killSent)

C26_SignalsToPool ==
    [][/\ Signalled \subseteq DOMAIN workers
       /\ \A m \in Mons :
             (mon[m].pc = "rb_exec" /\ mon'[m].pc = "sleep") =>
                 /\ termSent' = termSent
                 /\ killSent' = killSent]_vars


\* C27: an ACTIVE task without started is never taken as timed out: no step
\* marks it FAILED, and no step of the monitoring task signals the worker
\* that holds it or takes that worker out of the pool, unless the worker is
\* found not running (exited, or its probe denied) or the cycle had marked
\* another task FAILED that the worker held before.
NoStart(t) == tasks[t].status = "ACTIVE" /\ tasks[t].started = Null

C27_NullStartNoTimeout ==
    [][\A t \in Tasks :
          NoStart(t) =>
              /\ tasks'[t].status # "FAILED"
              /\ call' = call => tasks[t].pid \notin Signalled
              /\ (tasks[t].pid \in DOMAIN workers \ DOMAIN workers' /\ call' = call) =>
                    \/ proc[tasks[t].pid] # "alive"
                    \/ \E m \in Mons : tasks[t].pid \in mon'[m].eperm
                    \/ \E m \in Mons : /\ mon[m].cur = tasks[t].pid
                                        /\ mon[m].task \notin {NoTask, t}]_vars

\* A cycle has looked at the task of a running worker, found it without
\* started and longer than the limit in the store, and left worker and task.
C27_Witness ==
    \E m \in Mons : \E s \in mon[m].seen :
        /\ s[3] = Null
        /\ mon[m].pc = "sleep"
        /\ NoStart(s[2])
        /\ tasks[s[2]].pid = s[1]
        /\ s[1] \in DOMAIN workers
        /\ proc[s[1]] = "alive"
        /\ now > max_task_seconds


\* C28: whenever running is false and no start() or stop() call is in
\* progress, the pool is empty and no monitoring task is inside
\* check_workers.
C28_QuietWhenStopped ==
    (~running /\ \A c \in Callers : call[c].pc = "idle") =>
        /\ DOMAIN workers = {}
        /\ \A m \in Mons : ~InCheckWorkers(m)


\* C29: by_release_path partitions the check results it read: each is in
\* exactly one place of the primary list, of one member list (that of its
\* member path) or of the ignored list, and nothing else is in them; a
\* result is in the ignored list exactly if its status is not SUCCESS and
\* some rule of the committee matches it in every criterion the rule sets.
Places(i) ==
    {<<"primary", <<>>, k>> :
        k \in {j \in DOMAIN checks.primary : checks.primary[j].id = i}}
    \cup UNION {{<<"member", key, k>> :
                    k \in {j \in DOMAIN checks.members[key] :
                              checks.members[key][j].id = i}} :
                key \in DOMAIN checks.members}
    \cup {<<"ignored", <<>>, k>> :
            k \in {j \in DOMAIN checks.ignored : checks.ignored[j].id = i}}

FromInput(list) ==
    \A k \in DOMAIN list :
        list[k].id \in DOMAIN checks.all /\ checks.all[list[k].id] = list[k]

RuleMatches(cr, cri) ==
    /\ cri.release_glob.none \/ MatchPattern(cri.release_glob, Some(ReleaseName)) = "true"
    /\ cri.revision_number.none \/ cri.revision_number.s = RevisionNumber
    /\ cri.checker_glob.none \/ MatchPattern(cri.checker_glob, Some(cr.checker)) = "true"
    /\ cri.primary_rel_path_glob.none
          \/ MatchPattern(cri.primary_rel_path_glob, Some(PrimaryRelPath)) = "true"
    /\ cri.member_rel_path_glob.none
          \/ MatchPattern(cri.member_rel_path_glob, cr.member_rel_path) = "true"
    /\ cri.status = "none" \/ cri.status = cr.status
    /\ cri.message_glob.none \/ MatchPattern(cri.message_glob, cr.message) = "true"

IsIgnored(i) == \E k \in DOMAIN checks.ignored : checks.ignored[k].id = i

C29_Partition ==
    checks.pc = "returned" =>
        /\ \A i \in DOMAIN checks.all : Cardinality(Places(i)) = 1
        /\ FromInput(checks.primary)
        /\ FromInput(checks.ignored)
        /\ \A key \in DOMAIN checks.members :
              /\ FromInput(checks.members[key])
              /\ checks.members[key] # <<>>
              /\ \A k \in DOMAIN checks.members[key] :
                    checks.members[key][k].member_rel_path = Some(key)
        /\ \A k \in DOMAIN checks.primary : checks.primary[k].member_rel_path.none
        /\ \A i \in DOMAIN checks.all :
              IsIgnored(i) <=>
                  /\ checks.all[i].status # "success"
                  /\ \E r \in DOMAIN checks.ignores :
                        RuleMatches(checks.all[i], checks.ignores[r])
        /\ \A k \in DOMAIN checks.ignored : checks.ignored[k].status # "success"

\* The call returned with a result ignored and a SUCCESS result kept that
\* the same rule would match in every criterion.
C29_Witness ==
    /\ checks.pc = "returned"
    /\ checks.ignored # <<>>
    /\ \E i \in DOMAIN checks.all :
          /\ checks.all[i].status = "success"
          /\ ~IsIgnored(i)
          /\ \E r \in DOMAIN checks.ignores :
                RuleMatches(checks.all[i], checks.ignores[r])

====
